---- MODULE Spec2Model ----
(***************************************************************************)
(* Model of the batch-completion tracking and re-analysis pipeline:        *)
(*   product_stability.py  (completeness check, reconcile driver)          *)
(*   run_analysis.py       (analyze_specific_ranks: rank range -> slice)   *)
(*   product_analyzer.py   (analyze_batch / analyze_product / save)        *)
(*   toolify_utils.py, fix_md_to_excel.py (spreadsheet export)             *)
(*                                                                         *)
(* The artifact store is the set of markdown directories                   *)
(*   output/toolify_analysis_{date}/{language}/markdown_files              *)
(* A file name "{rank}-{safe_name}.md" is the pair <<rank, safe_name>>.    *)
(* A file's content is abstracted to the bytes outside its                 *)
(* "analysis tool" line (base), the tool named on that line (tool) and     *)
(* whether the body mentions OpenAI/GPT (gpt).                             *)
(*                                                                         *)
(* Environment assumptions of the model: the record source (data file) is  *)
(* present and yields the same records to every process of a run, and the  *)
(* API key of the default API (deepseek) is set.                           *)
(***************************************************************************)
EXTENDS Integers, Sequences, FiniteSets, TLC

\* ------------------------------------------------------------------ bounds
MaxN == 3
MaxBatch == 2
MaxRuns == 2
MaxInitFiles == 1
MaxFaults == 1
MaxExportFiles == 3
MaxIds == 2
MaxPool == 2
MaxSheet == 6
MaxRank == 12
MaxNameLen == 1

\* ------------------------------------------------------- program constants
MIN_VALID_FILE_SIZE == 1000
DEFAULT_RETRY_COUNT == 3
TEMPLATE_BYTES_CN == 2795
TEMPLATE_BYTES_EN == 1710
max_workers == 5

\* "no such file", "no file merged", "no report yet"
Absent == [base |-> -1, tool |-> "", gpt |-> FALSE, sections |-> FALSE]
NoFile == <<-1, <<>>>>
NoReport == [total_products |-> -1]

Dates == {"today", "other"}
Langs == {"cn", "en"}
Dirs == Dates \X Langs

\* datetime.now().strftime("%Y%m%d")
get_current_date_str == "today"

\* ------------------------------------------------------------ file names
\* name.lower(), one character
Lower(c) == CASE c = "A" -> "a" [] c = "B" -> "b" [] OTHER -> c

\* c.isalnum()
IsAlnum(c) == c \in {"A", "B", "a", "b", "x", "1", "2", "3", "4"}

\* "".join([c if c.isalnum() else "_" for c in name.lower()])
SafeName(name) ==
  [k \in 1..Len(name) |-> IF IsAlnum(Lower(name[k])) THEN Lower(name[k]) ELSE "_"]

\* the tool name of the record at rank r: "A", "-A", "--A", ...
NameOf(r) == [k \in 1..r |-> IF k = r THEN "A" ELSE "-"]

\* f"{rank}-{safe_name}.md"
MarkdownName(rank, name) == <<rank, SafeName(name)>>

\* files the analyzers can write for the records, plus files left by an
\* older record list: one with the rank prefix of record 1 and another name
\* ("1-x.md"), one of a former rank 2 named "-1-" ("2-_1_.md")
RecordFiles == {MarkdownName(r, NameOf(r)) : r \in 1..MaxN}
StrayFiles == {<<1, <<"x">>>>, <<2, <<"_", "1", "_">>>>}
OldFiles == RecordFiles \cup StrayFiles

\* tool names in the sheet given to the parallel mode, and the files the
\* worker threads can write for them
PoolNames == {<<"A">>, <<"a">>, <<"B">>}
PoolFiles == {MarkdownName(r, n) : r \in 1..MaxPool, n \in PoolNames}

FileNames == OldFiles \cup PoolFiles

\* re.match(r'^(\d+)-', file_name) ; int(match.group(1))
RankOf(file_name) == file_name[1]

\* ---------------------------------------------------------- file content
DeepSeekName == "DeepSeek AI"
OpenAIName == "OpenAI GPT-4"

ToolLen(t) == CASE t = DeepSeekName -> 11 [] t = OpenAIName -> 12 [] OTHER -> 0

\* os.path.getsize
Size(f) == f.base + ToolLen(f.tool)

Truncated == [base |-> 0, tool |-> "", gpt |-> FALSE, sections |-> FALSE]

\* files found in a store before a run: one of MIN_VALID_FILE_SIZE - 1 bytes
\* whose body mentions GPT, one of exactly MIN_VALID_FILE_SIZE bytes; both
\* end before the last of the five headings check_md_files.py looks for
\* ("sections": all five headings are in the content)
Small999 ==
  [base |-> MIN_VALID_FILE_SIZE - 1 - 11, tool |-> DeepSeekName, gpt |-> TRUE,
   sections |-> FALSE]
Exact1000 ==
  [base |-> MIN_VALID_FILE_SIZE - 12, tool |-> OpenAIName, gpt |-> FALSE,
   sections |-> FALSE]
InitFiles == {Small999, Exact1000}

\* a 200 response of the API: the full analysis, or a short answer
GenValid == [base |-> 1500, tool |-> DeepSeekName, gpt |-> FALSE, sections |-> TRUE]
GenShort == [base |-> 200, tool |-> DeepSeekName, gpt |-> FALSE, sections |-> FALSE]

\* f"# {name}\n\n{template}" with the built-in template of the language
TemplateContent(lang) ==
  [base |-> (IF lang = "cn" THEN TEMPLATE_BYTES_CN ELSE TEMPLATE_BYTES_EN) - 11,
   tool |-> DeepSeekName, gpt |-> FALSE, sections |-> (lang = "cn")]

\* ------------------------------------------------------------- sequences
Min(S) == CHOOSE x \in S : \A y \in S : x <= y

RECURSIVE SortedSeq(_)
\* sorted(list(S))
SortedSeq(S) == IF S = {} THEN <<>> ELSE <<Min(S)>> \o SortedSeq(S \ {Min(S)})

Range(s) == {s[k] : k \in DOMAIN s}

\* s[a:b] of Python, 0-based, half open
Slice(s, a, b) ==
  LET lo == IF a < Len(s) THEN a ELSE Len(s)
      hi == IF b < Len(s) THEN b ELSE Len(s)
  IN  IF hi <= lo THEN <<>> ELSE [k \in 1..(hi - lo) |-> s[lo + k]]

\* ------------------------------------------------------ completeness check
\* glob.glob(os.path.join(markdown_dir, "*.md"))
MarkdownFiles(st, dir) == {f \in FileNames : st[dir][f] # Absent}

SmallFiles(st, dir) ==
  {f \in MarkdownFiles(st, dir) : Size(st[dir][f]) < MIN_VALID_FILE_SIZE}

AnalyzedRanks(st, dir) ==
  {RankOf(f) : f \in {g \in MarkdownFiles(st, dir) :
                         Size(st[dir][g]) >= MIN_VALID_FILE_SIZE}}

MissingRanks(st, dir, total) ==
  SortedSeq({r \in 1..total : r \notin AnalyzedRanks(st, dir)})

\* round(a / b, 2) in hundredths; a / b raises ZeroDivisionError when b = 0,
\* here the division by 0 that TLC refuses (no tie occurs for b <= 5)
Round2(a, b) == (2 * a * 100 + b) \div (2 * b)

check_analysis_completeness(st, lang, date, total) ==
  LET dir == <<date, lang>> IN
  [date |-> date,
   language |-> lang,
   total_products |-> total,
   analyzed_ranks |-> AnalyzedRanks(st, dir),
   analyzed_products |-> Cardinality(AnalyzedRanks(st, dir)),
   missing_products |-> Len(MissingRanks(st, dir, total)),
   small_files |-> Cardinality(SmallFiles(st, dir)),
   completion_percentage |->
     IF total > 0 THEN Round2(Cardinality(AnalyzedRanks(st, dir)) * 100, total)
     ELSE 0,
   missing_ranks |-> MissingRanks(st, dir, total),
   small_files_list |-> SmallFiles(st, dir)]

\* check_md_files.py scans the cn directory of the date written in it
CheckMdDir == <<"other", "cn">>

\* files of at least MIN_VALID_FILE_SIZE bytes without one of the headings
IncompleteFiles(st, dir) ==
  {f \in MarkdownFiles(st, dir) :
     Size(st[dir][f]) >= MIN_VALID_FILE_SIZE /\ ~st[dir][f].sections}

\* check_md_files.main: the same lists and the printed incomplete files, then
\* completion_rate = len(analyzed_ranks) / total_products * 100, unguarded
check_md_files(st, total) ==
  IF total = 0 THEN [error |-> "ZeroDivisionError"]
  ELSE [total_products |-> total,
        small_files |-> SmallFiles(st, CheckMdDir),
        incomplete_files |-> IncompleteFiles(st, CheckMdDir),
        analyzed_ranks |-> AnalyzedRanks(st, CheckMdDir),
        missing_ranks |-> MissingRanks(st, CheckMdDir, total),
        completion_rate |->
          Round2(Cardinality(AnalyzedRanks(st, CheckMdDir)) * 100, total)]

\* main: all_missing = missing_ranks + ranks of the small files, sorted
AllMissing(rep) ==
  SortedSeq(Range(rep.missing_ranks) \cup {RankOf(f) : f \in rep.small_files_list})

\* ------------------------------------------------------------------ state
VARIABLES
  records,              \* the rows of the data file: [rank, name]
  language,             \* --language
  date_str,             \* --date of product_stability ("today" when omitted)
  batch_size,           \* --batch-size of product_stability
  source,               \* what the completeness check finds of its sources
  store,                \* [Dirs -> [FileNames -> content or Absent]]
  nested,               \* {-o}/markdown_files written by save_results
  cells,                \* analysis column of the exported sheet: row -> file
  pc,                   \* position of the reconcile run
  report,               \* first completeness report of the run
  all_missing,          \* sorted target list of the run
  i,                    \* offset of the current batch in all_missing
  rank_range,           \* <<start_rank, end_rank>> of the current batch
  success,              \* result of reanalyze_missing_products
  new_report,           \* completeness report after the run
  attempt,              \* retry counter of analyze_specific_ranks
  products_to_analyze,  \* positions sliced by analyze_batch
  j,                    \* index of the current product in the slice
  markdown_content,     \* content analyze_product is about to write
  calls,                \* ranks for which the API was called in this run
  failed,               \* ranks whose API call failed in this run
  gen_ok,               \* every API call so far returned a full analysis
  faults,               \* API calls of this run that did not return one
  crashed,              \* some subprocess ended with a non-zero code
  started,              \* offsets of the batches of this run that were started
  nonzero,              \* offsets of those whose run_analysis.py failed
  runs,                 \* reconcile runs started
  observed,             \* report of the last concurrent completeness check
  exported,             \* a spreadsheet export has run
  md_check,             \* what check_md_files.py printed, or its error
  ids,                  \* product ids given to analyze_specific_products
  api_key,              \* the API key of the chosen API is in the environment
  id_products,          \* its products_to_analyze: positions of the valid ids
  item,                 \* index of the current product in id_products
  product_attempt,      \* its attempt counter for the current product
  product_success,      \* the current product has been analyzed
  products_success,     \* its success flag
  products_pc,          \* position of analyze_specific_products
  returned,             \* what it returned: "none", "True" or "False"
  attempted,            \* indices whose subprocess was started
  exhausted,            \* indices given up after the last attempt
  start_rank,           \* --rank-range of analyze_remaining_with_openai.py
  end_rank,
  rank,                 \* loop variable of analyze_ranks
  success_count,        \* its success_count
  ranks_pc,             \* position of analyze_ranks
  ranks_returned,       \* what it returned: "none", "True" or "False"
  reached,              \* ranks its loop has come to
  rows,                 \* the sheet product_analyzer.py reads: raw rank, name
  submitted,            \* products handed to the executor so far
  tasks,                \* position of each analyze_product call of the pool
  answer,               \* what the API returned to each call
  use_gpu,              \* --use-gpu: analyze_batch takes the parallel mode
  batch_start,          \* offset of the current batch of analyze_batch
  excel_files,          \* Toolify_AI_Revenue_{LANG}_{date}_*.xlsx of the analysis dir
  no_content,           \* the step just taken got no content from the API
  markdown_paths,       \* the file name of each record, character by character
  parsed_ranks          \* the rank the completeness check reads from each name

vars == <<records, language, date_str, batch_size, source, store, nested, cells, pc,
          report, all_missing, i, rank_range, success, new_report, attempt,
          products_to_analyze, j, markdown_content, calls, failed, gen_ok,
          faults, crashed, started, nonzero, runs, observed, exported,
          md_check, ids, api_key, id_products, item, product_attempt,
          product_success, products_success, products_pc, returned,
          attempted, exhausted, start_rank, end_rank, rank, success_count,
          ranks_pc, ranks_returned, reached, rows, submitted, tasks, answer,
          use_gpu, batch_start, excel_files, no_content, markdown_paths,
          parsed_ranks>>

inputs == <<records, language, date_str, batch_size, source>>
\* state of the tools that Spec does not run
by_id == <<ids, api_key, id_products, item, product_attempt, product_success,
           products_success, products_pc, returned, attempted, exhausted>>
by_rank == <<start_rank, end_rank, rank, success_count, ranks_pc,
             ranks_returned, reached>>
pool == <<rows, submitted, tasks, answer, use_gpu, batch_start>>
keys == <<markdown_paths, parsed_ranks>>
side == <<md_check, by_id, by_rank, pool, excel_files, no_content, keys>>
driver == <<report, all_missing, i, rank_range, success, new_report, runs>>
worker == <<attempt, products_to_analyze, j, markdown_content>>
ghosts == <<calls, failed, gen_ok, faults, crashed, started, nonzero>>

\* the directory the completeness check of this run scans
TargetDir == <<date_str, language>>

\* the directory analyze_product writes to: it takes the current date
WriteDir == <<get_current_date_str, language>>

EmptyDir == [f \in FileNames |-> Absent]

\* a directory that holds the given files and no others
Directory(files) ==
  [f \in FileNames |-> IF f \in DOMAIN files THEN files[f] ELSE Absent]

\* analyze_specific_products has not been called
ProductsIdle ==
  /\ ids = <<>>
  /\ api_key = TRUE
  /\ id_products = <<>>
  /\ item = 0
  /\ product_attempt = 0
  /\ product_success = FALSE
  /\ products_success = TRUE
  /\ products_pc = "idle"
  /\ returned = "none"
  /\ attempted = {}
  /\ exhausted = {}

\* analyze_ranks has not been called
RanksIdle ==
  /\ start_rank = 0
  /\ end_rank = 0
  /\ rank = 0
  /\ success_count = 0
  /\ ranks_pc = "idle"
  /\ ranks_returned = "none"
  /\ reached = {}
  /\ no_content = FALSE

\* analyze_batch_parallel has not been called
PoolIdle ==
  /\ rows = <<>>
  /\ submitted = 0
  /\ tasks = <<>>
  /\ answer = <<>>
  /\ use_gpu = TRUE
  /\ batch_start = 0

InitReconcile ==
  /\ \E n \in 1..MaxN : records = [p \in 1..n |-> [rank |-> p, name |-> NameOf(p)]]
  /\ language \in Langs
  /\ date_str \in Dates
  /\ batch_size \in 1..MaxBatch
  /\ \E files \in [OldFiles -> InitFiles \cup {Absent}] :
       /\ Cardinality({f \in OldFiles : files[f] # Absent}) <= MaxInitFiles
       /\ store = [d \in Dirs |-> IF d = <<date_str, language>>
                                    THEN Directory(files) ELSE EmptyDir]
  /\ nested = EmptyDir
  /\ cells = [p \in 1..MaxN |-> NoFile]
  /\ pc = "idle"
  /\ report = NoReport
  /\ all_missing = <<>>
  /\ i = 0
  /\ rank_range = <<0, 0>>
  /\ success = TRUE
  /\ new_report = NoReport
  /\ attempt = 0
  /\ products_to_analyze = <<>>
  /\ j = 0
  /\ markdown_content = Absent
  /\ calls = {}
  /\ failed = {}
  /\ gen_ok = TRUE
  /\ faults = 0
  /\ crashed = FALSE
  /\ started = {}
  /\ nonzero = {}
  /\ runs = 0
  /\ observed = NoReport
  /\ exported = FALSE
  /\ md_check = NoReport
  /\ ProductsIdle
  /\ RanksIdle
  /\ PoolIdle
  /\ markdown_paths = <<>>
  /\ parsed_ranks = <<>>

\* the analysis directory, the data file and the markdown directory exist
Init == InitReconcile /\ source = "ok" /\ excel_files = {}

\* -------------------------------------------------- product_stability.main
Total == Len(records)

\* max(1, retry_count + 1)
max_attempts == IF DEFAULT_RETRY_COUNT + 1 > 1 THEN DEFAULT_RETRY_COUNT + 1 ELSE 1

\* a reconcile run that does not look at what the check found of its sources
StartReconcile_unchecked ==
  /\ pc \in {"idle", "done"}
  /\ products_pc = "idle"
  /\ ranks_pc = "idle"
  /\ runs < MaxRuns
  /\ runs' = runs + 1
  /\ report' = check_analysis_completeness(store, language, date_str, Total)
  /\ all_missing' = AllMissing(report')
  /\ new_report' = NoReport
  /\ i' = 0
  /\ success' = TRUE
  /\ calls' = {}
  /\ failed' = {}
  /\ faults' = 0
  /\ started' = {}
  /\ nonzero' = {}
  /\ observed' = NoReport
  /\ pc' = IF all_missing' = <<>> THEN "done" ELSE "batches"
  /\ UNCHANGED <<side, inputs, store, nested, cells, rank_range, worker, gen_ok,
                 crashed, exported>>

\* --reanalyze-missing: first completeness check and the merged target list
\* (nothing to do when the check returns no report; a behaviour follows the reconcile runs, one by-id run or one by-rank run)
StartReconcile ==
  /\ pc \in {"idle", "done"}
  /\ products_pc = "idle"
  /\ ranks_pc = "idle"
  /\ runs < MaxRuns
  /\ runs' = runs + 1
  /\ report' = IF source = "ok"
                 THEN check_analysis_completeness(store, language, date_str, Total)
                 ELSE NoReport
  /\ all_missing' = IF report' = NoReport THEN <<>> ELSE AllMissing(report')
  /\ new_report' = NoReport
  /\ i' = 0
  /\ success' = TRUE
  /\ calls' = {}
  /\ failed' = {}
  /\ faults' = 0
  /\ started' = {}
  /\ nonzero' = {}
  /\ observed' = NoReport
  /\ pc' = IF all_missing' = <<>> THEN "done" ELSE "batches"
  /\ UNCHANGED <<side, inputs, store, nested, cells, rank_range, worker, gen_ok,
                 crashed, exported>>

\* batch = missing_ranks[i:i+batch_size]
Batch == Slice(all_missing, i, i + batch_size)

\* reanalyze_missing_products starts "run_analysis.py --rank-range a-b" for
\* the next batch; analyze_specific_ranks checks the range and builds the
\* product_analyzer command (-s start_rank - 1, -c end_rank - start_rank + 1)
NextBatch ==
  /\ pc = "batches"
  /\ i < Len(all_missing)
  /\ rank_range' = <<Batch[1], Batch[Len(Batch)]>>
  /\ attempt' = 0
  /\ IF rank_range'[1] <= 0 \/ rank_range'[2] <= 0 \/ rank_range'[1] > rank_range'[2]
       THEN /\ pc' = "batches"
            /\ i' = i + batch_size
       ELSE /\ pc' = "attempt"
            /\ i' = i
  /\ started' = started \cup {i}
  /\ UNCHANGED <<side, inputs, store, nested, cells, report, all_missing,
                 success, new_report, runs, products_to_analyze, j,
                 markdown_content, calls, failed, gen_ok, faults, crashed,
                 nonzero, observed, exported>>

\* a loop that stops at the first failed batch
RunAnalysisFails_break ==
  /\ pc = "batches"
  /\ i < Len(all_missing)
  /\ success' = FALSE
  /\ crashed' = TRUE
  /\ started' = started \cup {i}
  /\ nonzero' = nonzero \cup {i}
  /\ i' = Len(all_missing)
  /\ UNCHANGED <<side, inputs, store, nested, cells, pc, report, all_missing,
                 rank_range, new_report, runs, worker, calls, failed, gen_ok,
                 faults, observed, exported>>

\* the run_analysis.py subprocess ends with a non-zero return code
RunAnalysisFails ==
  /\ pc = "batches"
  /\ i < Len(all_missing)
  /\ success' = FALSE
  /\ crashed' = TRUE
  /\ started' = started \cup {i}
  /\ nonzero' = nonzero \cup {i}
  /\ i' = i + batch_size
  /\ UNCHANGED <<side, inputs, store, nested, cells, pc, report, all_missing,
                 rank_range, new_report, runs, worker, calls, failed, gen_ok,
                 faults, observed, exported>>

start_index == rank_range[1] - 1
count == rank_range[2] - rank_range[1] + 1

\* product_analyzer.main / analyze_batch: products[start_index:end_index]
ProductsToAnalyze ==
  IF start_index >= Total THEN <<>>
  ELSE LET end_index == IF start_index + count < Total
                          THEN start_index + count ELSE Total
       IN  [k \in 1..(end_index - start_index) |-> start_index + k]

\* one attempt of analyze_specific_ranks: the product_analyzer subprocess
\* starts and slices the products
StartAnalyzer ==
  /\ pc = "attempt"
  /\ attempt < max_attempts
  /\ attempt' = attempt + 1
  /\ products_to_analyze' = ProductsToAnalyze
  /\ j' = 1
  /\ IF products_to_analyze' = <<>>
       THEN /\ pc' = "batches"
            /\ i' = i + batch_size
       ELSE /\ pc' = "api"
            /\ i' = i
  /\ UNCHANGED <<side, inputs, store, nested, cells, report, all_missing, rank_range,
                 success, new_report, runs, markdown_content, ghosts, observed, exported>>

\* one attempt of analyze_specific_ranks: the subprocess returns a non-zero
\* code; retried while attempts remain, then the batch is given up
AnalyzerFails ==
  /\ pc = "attempt"
  /\ attempt < max_attempts
  /\ attempt' = attempt + 1
  /\ crashed' = TRUE
  /\ IF attempt' < max_attempts
       THEN /\ pc' = "attempt"
            /\ i' = i
       ELSE /\ pc' = "batches"
            /\ i' = i + batch_size
  /\ UNCHANGED <<side, inputs, store, nested, cells, report, all_missing,
                 rank_range, success, new_report, runs, products_to_analyze,
                 j, markdown_content, calls, failed, gen_ok, faults, started,
                 nonzero, observed, exported>>

\* ---------------------------------------- ProductAnalyzer.analyze_product
CurrentProduct == records[products_to_analyze[j]]
markdown_path == MarkdownName(CurrentProduct.rank, CurrentProduct.name)

Outcomes == {"ok", "short", "error"}

\* content chosen by analyze_product: the API answer on status 200, the
\* filled-in default template on any other status or on an exception
ContentFor(outcome) ==
  CASE outcome = "ok" -> GenValid
    [] outcome = "short" -> GenShort
    [] OTHER -> TemplateContent(language)

\* requests.post to the API
CallGenerator ==
  /\ pc = "api"
  /\ \E outcome \in Outcomes :
       /\ outcome # "ok" => faults < MaxFaults
       /\ faults' = IF outcome = "ok" THEN faults ELSE faults + 1
       /\ markdown_content' = ContentFor(outcome)
       /\ failed' = IF outcome = "error" THEN failed \cup {CurrentProduct.rank} ELSE failed
       /\ gen_ok' = (gen_ok /\ outcome = "ok")
  /\ calls' = calls \cup {CurrentProduct.rank}
  /\ pc' = "open"
  /\ UNCHANGED <<side, inputs, store, nested, cells, driver, attempt,
                 products_to_analyze, j, crashed, started, nonzero, observed,
                 exported>>

\* open(markdown_path, 'w'): the file is created or truncated
OpenMarkdown ==
  /\ pc = "open"
  /\ store' = [store EXCEPT ![WriteDir][markdown_path] = Truncated]
  /\ pc' = "write"
  /\ UNCHANGED <<side, inputs, nested, cells, driver, worker, ghosts, observed, exported>>

\* f.write(markdown_content) and close
WriteMarkdown ==
  /\ pc = "write"
  /\ store' = [store EXCEPT ![WriteDir][markdown_path] = markdown_content]
  /\ j' = j + 1
  /\ pc' = IF j' > Len(products_to_analyze) THEN "save" ELSE "api"
  /\ UNCHANGED <<side, inputs, nested, cells, driver, attempt, products_to_analyze,
                 markdown_content, ghosts, observed, exported>>

\* ------------------------------------------------------ spreadsheet export
\* re.sub(r'... : [^\n]+', api_name): the tool line, when there is one
RewriteTool(f, api_name) == IF f.tool # "" THEN [f EXCEPT !.tool = api_name] ELSE f

\* api_name = "OpenAI GPT-4" if "OpenAI" in content or "GPT" in content
DetectApiName(f) == IF f.gpt \/ f.tool = OpenAIName THEN OpenAIName ELSE DeepSeekName

\* the first product whose rank equals the rank prefix of the file
HasProduct(f) == \E p \in 1..Total : records[p].rank = RankOf(f)
ProductOf(f) == Min({p \in 1..Total : records[p].rank = RankOf(f)})

\* markdown files for which the export builds an analysis result
Matched(dir) == {f \in MarkdownFiles(store, dir) : HasProduct(f)}

\* the sheets the export loop can leave behind: a row holds the analysis of
\* one of the results written to it (the last one in glob order), rows
\* without a result stay empty; rows_of[f] are the rows the mask of f selects
Sheets(rows_of, results) ==
  LET Cands(p) == {f \in results : p \in rows_of[f]}
      Lasts == {w \in SUBSET results :
                  \A p \in 1..MaxN :
                    Cands(p) # {} => Cardinality(Cands(p) \cap w) = 1}
  IN  {[p \in 1..MaxN |->
          IF Cands(p) = {} THEN NoFile ELSE CHOOSE f \in Cands(p) : f \in w]
         : w \in Lasts}

RECURSIVE Perms(_)
\* the orders in which glob.glob can list the files S
Perms(S) ==
  IF S = {} THEN {<<>>}
  ELSE UNION {{<<x>> \o o : o \in Perms(S \ {x})} : x \in S}

\* str(product_id), for the one-digit ids of the model
DigitOf(id) == CASE id = 1 -> "1" [] id = 2 -> "2" [] id = 3 -> "3" [] OTHER -> "4"

\* f"_{product_id}_" in file_name
HasIdToken(f, id) ==
  \E k \in 1..(Len(f[2]) - 2) :
    f[2][k] = "_" /\ f[2][k + 1] = DigitOf(id) /\ f[2][k + 2] = "_"

\* the first file of md_files that names the product id or has it as prefix
FirstMatch(order, id) ==
  LET hits == {k \in DOMAIN order :
                 HasIdToken(order[k], id) \/ RankOf(order[k]) = id}
  IN  IF hits = {} THEN NoFile ELSE order[Min(hits)]

\* mask = df["Tool Name"] == tool_name
RowsByName(f) == {p \in 1..Total : records[p].name = records[ProductOf(f)].name}

\* mask = df[rank_column] == product[rank_column]
RowsByRank(f) == {p \in 1..Total : records[p].rank = records[ProductOf(f)].rank}

\* product_analyzer.main after analyze_batch: save_results writes a copy of
\* every result below {-o}/markdown_files, update_excel_with_analysis merges
\* the copies into the sheet and writes them back; the subprocess returns 0
SaveResults ==
  /\ pc = "save"
  /\ LET saved == {MarkdownName(records[q].rank, records[q].name) :
                      q \in Range(products_to_analyze)}
     IN  /\ nested' = [f \in FileNames |->
                         IF f \in saved
                           THEN RewriteTool(store[WriteDir][f], DeepSeekName)
                           ELSE nested[f]]
         /\ cells' \in Sheets([f \in saved |-> RowsByName(f)], saved)
  /\ pc' = "batches"
  /\ i' = i + batch_size
  /\ UNCHANGED <<side, inputs, store, report, all_missing, rank_range, success,
                 new_report, runs, worker, ghosts, observed, exported>>

\* a main that starts over with the gaps the second check still finds
FinalCheck_again ==
  /\ pc = "batches"
  /\ i >= Len(all_missing)
  /\ new_report' = check_analysis_completeness(store, language, date_str, Total)
  /\ all_missing' = AllMissing(new_report')
  /\ i' = 0
  /\ pc' = IF all_missing' = <<>> THEN "done" ELSE "batches"
  /\ UNCHANGED <<side, inputs, store, nested, cells, report, rank_range,
                 success, runs, worker, ghosts, observed, exported>>

\* main: second completeness check after reanalyze_missing_products
FinalCheck ==
  /\ pc = "batches"
  /\ i >= Len(all_missing)
  /\ new_report' = check_analysis_completeness(store, language, date_str, Total)
  /\ pc' = "done"
  /\ UNCHANGED <<side, inputs, store, nested, cells, report, all_missing, i,
                 rank_range, success, runs, worker, ghosts, observed, exported>>

\* "product_stability.py --check-completeness" run by another process while
\* the reconcile run is in progress
ConcurrentCheck ==
  /\ pc \notin {"idle", "done"}
  /\ observed' = check_analysis_completeness(store, language, date_str, Total)
  /\ observed' # observed
  /\ UNCHANGED <<side, inputs, store, nested, cells, pc, driver, worker, ghosts,
                 exported>>

\* toolify_utils.update_excel_with_analysis on the results run_analysis
\* builds from the markdown directory (no "api_name" in a result)
update_excel_with_analysis ==
  /\ pc = "done"
  /\ Matched(TargetDir) # {}
  /\ store' = [store EXCEPT ![TargetDir] =
                 [f \in FileNames |->
                    IF f \in Matched(TargetDir)
                      THEN RewriteTool(store[TargetDir][f], DeepSeekName)
                      ELSE store[TargetDir][f]]]
  /\ cells' \in Sheets([f \in Matched(TargetDir) |-> RowsByName(f)],
                      Matched(TargetDir))
  /\ exported' = TRUE
  /\ UNCHANGED <<side, inputs, nested, pc, driver, worker, ghosts, observed>>

\* fix_md_to_excel.insert_md_to_excel (api_name detected from the content)
insert_md_to_excel ==
  /\ pc = "done"
  /\ Matched(TargetDir) # {}
  /\ store' = [store EXCEPT ![TargetDir] =
                 [f \in FileNames |->
                    IF f \in Matched(TargetDir)
                      THEN RewriteTool(store[TargetDir][f],
                                       DetectApiName(store[TargetDir][f]))
                      ELSE store[TargetDir][f]]]
  /\ cells' \in Sheets([f \in Matched(TargetDir) |-> RowsByRank(f)],
                      Matched(TargetDir))
  /\ exported' = TRUE
  /\ UNCHANGED <<side, inputs, nested, pc, driver, worker, ghosts, observed>>

\* the names clean_old_excel_files globs for, without their common prefix:
\* the standard file, the backup and a time-stamped file
ExcelNames == {"analyzed", "analyzed_backup", "analyzed_HHMMSS"}

\* an insert_md_to_excel whose clean-up takes the markdown files as well
run_analysis_insert_md_to_excel_rm ==
  /\ pc = "done"
  /\ MarkdownFiles(store, TargetDir) # {}
  /\ cells' \in {[p \in 1..MaxN |->
                    IF p <= Total THEN FirstMatch(order, p) ELSE NoFile] :
                  order \in Perms(MarkdownFiles(store, TargetDir))}
  /\ exported' = TRUE
  /\ excel_files' = {"analyzed"}
  /\ store' = [store EXCEPT ![TargetDir] = EmptyDir]
  /\ UNCHANGED <<md_check, by_id, by_rank, pool, no_content, keys, inputs, nested,
                 pc, driver, worker, ghosts, observed>>

\* run_analysis.insert_md_to_excel: row index + 1 is the product id, the
\* first matching file of the directory fills the row; the files are read
\* only. The sheet is saved under the standard name, or under one of the
\* other two when the file is in use, and clean_old_excel_files removes every
\* matching file but the standard one (a file it cannot remove stays)
run_analysis_insert_md_to_excel ==
  /\ pc = "done"
  /\ MarkdownFiles(store, TargetDir) # {}
  /\ cells' \in {[p \in 1..MaxN |->
                    IF p <= Total THEN FirstMatch(order, p) ELSE NoFile] :
                  order \in Perms(MarkdownFiles(store, TargetDir))}
  /\ exported' = TRUE
  /\ \E output_file \in ExcelNames :
       LET found == excel_files \cup {output_file}
       IN  excel_files' \in {kept \in SUBSET found : found \cap {"analyzed"} \subseteq kept}
  /\ UNCHANGED <<md_check, by_id, by_rank, pool, no_content, keys, inputs, store,
                 nested, pc, driver, worker, ghosts, observed>>

\* Spec takes every subprocess to return 0, as product_analyzer.main and
\* run_analysis.main do for every handled error: RunAnalysisFails and
\* AnalyzerFails are not among its steps.
Next ==
  \/ StartReconcile
  \/ NextBatch
  \/ StartAnalyzer
  \/ CallGenerator
  \/ OpenMarkdown
  \/ WriteMarkdown
  \/ SaveResults
  \/ FinalCheck
  \/ ConcurrentCheck
  \/ update_excel_with_analysis
  \/ insert_md_to_excel

Spec == Init /\ [][Next]_vars

\* ------------------------------- run_analysis.analyze_specific_products
\* what the by-id run and the by-rank run leave alone
reconcile == <<md_check, pool, excel_files, keys, inputs, nested, cells, pc, driver, worker,
               ghosts, observed, exported>>

\* the id lists of the model
IdLists == UNION {[1..n -> 0..(MaxN + 1)] : n \in 1..MaxIds}

\* "--product-ids" on a fresh process: the ids inside 1..len(products) are
\* kept, in the order given; no valid id ends the call with False
StartProducts ==
  /\ products_pc = "idle"
  /\ ranks_pc = "idle"
  /\ pc = "idle"
  /\ runs = 0
  /\ ids' \in IdLists
  /\ api_key' \in BOOLEAN
  /\ LET valid == {a \in DOMAIN ids' : 0 < ids'[a] /\ ids'[a] <= Total}
         kept == SortedSeq(valid)
     IN  id_products' = [a \in DOMAIN kept |-> ids'[kept[a]]]
  /\ item' = 1
  /\ products_success' = TRUE
  /\ IF id_products' = <<>>
       THEN /\ products_pc' = "returned"
            /\ returned' = "False"
       ELSE /\ products_pc' = "product"
            /\ returned' = "none"
  /\ UNCHANGED <<reconcile, no_content, by_rank, store, product_attempt, product_success,
                 attempted, exhausted>>

\* the head of the loop body: attempt = 0, product_success = False, and the
\* API key test, which ends the call with False
NextProduct ==
  /\ products_pc = "product"
  /\ item <= Len(id_products)
  /\ product_attempt' = 0
  /\ product_success' = FALSE
  /\ IF api_key
       THEN /\ products_pc' = "attempt"
            /\ returned' = returned
       ELSE /\ products_pc' = "returned"
            /\ returned' = "False"
  /\ UNCHANGED <<reconcile, no_content, by_rank, store, ids, api_key, id_products, item,
                 products_success, attempted, exhausted>>

\* the outcomes of subprocess.run(product_cmd)
RunOutcomes == {"zero", "nonzero", "exception"}

\* one turn of "while attempt < max_attempts and not product_success":
\* "analyze_product.py --rank r" writes the answer of the API and returns 0,
\* or gets no content, writes nothing and returns 1; subprocess.run may raise
RunProduct ==
  /\ products_pc = "attempt"
  /\ product_attempt < max_attempts
  /\ ~product_success
  /\ product_attempt' = product_attempt + 1
  /\ \E outcome \in RunOutcomes :
       /\ product_success' = (outcome = "zero")
       /\ no_content' = (outcome = "nonzero")
       /\ IF outcome = "zero"
            THEN LET product == records[id_products[item]]
                 IN  \E content \in {GenValid, GenShort} :
                       store' =
                         [store EXCEPT
                            ![TargetDir][MarkdownName(product.rank, product.name)] =
                               content]
            ELSE store' = store
  /\ attempted' = attempted \cup {item}
  /\ UNCHANGED <<reconcile, by_rank, ids, api_key, id_products, item,
                 products_success, products_pc, returned, exhausted>>

\* the loop is left: "if not product_success: success = False", next product
EndProduct ==
  /\ products_pc = "attempt"
  /\ ~(product_attempt < max_attempts /\ ~product_success)
  /\ products_success' = (products_success /\ product_success)
  /\ exhausted' = IF product_success THEN exhausted ELSE exhausted \cup {item}
  /\ item' = item + 1
  /\ products_pc' = "product"
  /\ UNCHANGED <<reconcile, no_content, by_rank, store, ids, api_key, id_products,
                 product_attempt, product_success, returned, attempted>>

\* after the last product (update_excel is not set): return success
ReturnProducts ==
  /\ products_pc = "product"
  /\ item > Len(id_products)
  /\ returned' = IF products_success THEN "True" ELSE "False"
  /\ products_pc' = "returned"
  /\ UNCHANGED <<reconcile, no_content, by_rank, store, ids, api_key, id_products, item,
                 product_attempt, product_success, products_success, attempted,
                 exhausted>>

\* ------------------------------ analyze_remaining_with_openai.analyze_ranks
\* what analyze_product_with_openai returns on status 200
OpenAIValid == [base |-> 1500, tool |-> OpenAIName, gpt |-> TRUE, sections |-> TRUE]
OpenAIShort == [base |-> 200, tool |-> OpenAIName, gpt |-> TRUE, sections |-> FALSE]

\* analyze_product_with_openai: the answer, or None (here Absent)
Answers == {OpenAIValid, OpenAIShort, Absent}

\* "with open(markdown_path, 'w') as f: f.write(markdown_content)": both
\* steps succeed, open raises, or write raises after the file was truncated
WriteOutcomes == {"written", "open raises", "write raises"}

\* "--rank-range a-b": the range test, then the loop starts at start_rank
StartRanks ==
  /\ ranks_pc = "idle"
  /\ products_pc = "idle"
  /\ pc = "idle"
  /\ runs = 0
  /\ start_rank' \in 0..(MaxN + 1)
  /\ end_rank' \in 0..(MaxN + 1)
  /\ rank' = start_rank'
  /\ success_count' = 0
  /\ IF start_rank' <= 0 \/ end_rank' <= 0 \/ start_rank' > end_rank'
       THEN /\ ranks_pc' = "returned"
            /\ ranks_returned' = "False"
       ELSE /\ ranks_pc' = "loop"
            /\ ranks_returned' = "none"
  /\ UNCHANGED <<reconcile, no_content, by_id, store, reached>>

\* the product of a rank: the first row with that rank
RowOfRank(r) == Min({p \in 1..Total : records[p].rank = r})

\* os.path.exists(markdown_path) and os.path.getsize(markdown_path) >= 1000
AlreadyAnalyzed(st, r) ==
  LET path == MarkdownName(r, records[RowOfRank(r)].name)
  IN  st[TargetDir][path] # Absent /\ Size(st[TargetDir][path]) >= 1000

\* a loop body that opens the file before it looks at the content
AnalyzeRank_open_first ==
  /\ ranks_pc = "loop"
  /\ rank <= end_rank
  /\ reached' = reached \cup {rank}
  /\ IF \A p \in 1..Total : records[p].rank # rank
       THEN /\ rank' = rank + 1
            /\ no_content' = FALSE
            /\ UNCHANGED <<store, success_count, ranks_pc>>
       ELSE IF AlreadyAnalyzed(store, rank)
       THEN /\ rank' = rank + 1
            /\ success_count' = success_count + 1
            /\ no_content' = FALSE
            /\ UNCHANGED <<store, ranks_pc>>
       ELSE LET path == MarkdownName(rank, records[RowOfRank(rank)].name) IN
            \E content \in Answers :
              /\ no_content' = (content = Absent)
              /\ IF content = Absent
                THEN /\ rank' = rank + 1
                     /\ store' = [store EXCEPT ![TargetDir][path] = Truncated]
                     /\ UNCHANGED <<success_count, ranks_pc>>
                ELSE \E outcome \in WriteOutcomes :
                       CASE outcome = "written" ->
                              /\ store' = [store EXCEPT ![TargetDir][path] = content]
                              /\ success_count' = success_count + 1
                              /\ rank' = rank + 1
                              /\ ranks_pc' = ranks_pc
                         [] outcome = "open raises" ->
                              /\ ranks_pc' = "raised"
                              /\ UNCHANGED <<store, success_count, rank>>
                         [] OTHER ->
                              /\ store' = [store EXCEPT ![TargetDir][path] = Truncated]
                              /\ ranks_pc' = "raised"
                              /\ UNCHANGED <<success_count, rank>>
  /\ UNCHANGED <<reconcile, by_id, start_rank, end_rank, ranks_returned>>

\* one turn of "for rank in range(start_rank, end_rank + 1)"
AnalyzeRank ==
  /\ ranks_pc = "loop"
  /\ rank <= end_rank
  /\ reached' = reached \cup {rank}
  /\ IF \A p \in 1..Total : records[p].rank # rank
       THEN /\ rank' = rank + 1
            /\ no_content' = FALSE
            /\ UNCHANGED <<store, success_count, ranks_pc>>
       ELSE IF AlreadyAnalyzed(store, rank)
       THEN /\ rank' = rank + 1
            /\ success_count' = success_count + 1
            /\ no_content' = FALSE
            /\ UNCHANGED <<store, ranks_pc>>
       ELSE LET path == MarkdownName(rank, records[RowOfRank(rank)].name) IN
            \E content \in Answers :
              /\ no_content' = (content = Absent)
              /\ IF content = Absent
                THEN /\ rank' = rank + 1
                     /\ UNCHANGED <<store, success_count, ranks_pc>>
                ELSE \E outcome \in WriteOutcomes :
                       CASE outcome = "written" ->
                              /\ store' = [store EXCEPT ![TargetDir][path] = content]
                              /\ success_count' = success_count + 1
                              /\ rank' = rank + 1
                              /\ ranks_pc' = ranks_pc
                         [] outcome = "open raises" ->
                              /\ ranks_pc' = "raised"
                              /\ UNCHANGED <<store, success_count, rank>>
                         [] OTHER ->
                              /\ store' = [store EXCEPT ![TargetDir][path] = Truncated]
                              /\ ranks_pc' = "raised"
                              /\ UNCHANGED <<success_count, rank>>
  /\ UNCHANGED <<reconcile, by_id, start_rank, end_rank, ranks_returned>>

\* return success_count > 0
ReturnRanks ==
  /\ ranks_pc = "loop"
  /\ rank > end_rank
  /\ ranks_returned' = IF success_count > 0 THEN "True" ELSE "False"
  /\ ranks_pc' = "returned"
  /\ UNCHANGED <<reconcile, no_content, by_id, store, start_rank, end_rank, rank,
                 success_count, reached>>

NextRanks ==
  \/ StartRanks
  \/ AnalyzeRank
  \/ ReturnRanks

SpecRanks == Init /\ [][NextRanks]_vars

\* ------------------------------- ProductAnalyzer.analyze_batch_parallel
\* a rank cell of the sheet: an integer, nothing, or text that int() refuses
RawRanks ==
  {[kind |-> "int", value |-> r] : r \in 1..MaxPool}
    \cup {[kind |-> "none", value |-> 0], [kind |-> "text", value |-> 0]}

Sheets_of_pool ==
  UNION {[1..n -> [rank : RawRanks, name : PoolNames]] : n \in 1..MaxPool}

\* product_analyzer.main: a missing rank and one that is no integer become
\* the position in the sheet plus one (positions start at 0)
Normalised(sheet) ==
  [k \in DOMAIN sheet |->
     [rank |-> IF sheet[k].rank.kind = "int" THEN sheet[k].rank.value ELSE k,
      name |-> sheet[k].name]]

\* "product_analyzer.py --use-gpu" on a sheet, in an empty output directory
InitPool ==
  /\ records = <<>>
  /\ language \in Langs
  /\ date_str = get_current_date_str
  /\ batch_size = 1
  /\ source = "ok"
  /\ store = [d \in Dirs |-> EmptyDir]
  /\ nested = EmptyDir
  /\ cells = [p \in 1..MaxN |-> NoFile]
  /\ pc = "idle"
  /\ report = NoReport
  /\ all_missing = <<>>
  /\ i = 0
  /\ rank_range = <<0, 0>>
  /\ success = TRUE
  /\ new_report = NoReport
  /\ attempt = 0
  /\ products_to_analyze = <<>>
  /\ j = 0
  /\ markdown_content = Absent
  /\ calls = {}
  /\ failed = {}
  /\ gen_ok = TRUE
  /\ faults = 0
  /\ crashed = FALSE
  /\ started = {}
  /\ nonzero = {}
  /\ runs = 0
  /\ observed = NoReport
  /\ exported = FALSE
  /\ md_check = NoReport
  /\ ProductsIdle
  /\ RanksIdle
  /\ rows \in Sheets_of_pool
  /\ submitted = 0
  /\ tasks = <<>>
  /\ answer = <<>>
  /\ use_gpu = TRUE
  /\ batch_start = 0
  /\ excel_files = {}
  /\ markdown_paths = <<>>
  /\ parsed_ranks = <<>>

\* what the pool leaves alone
rest_of_pool == <<md_check, by_id, by_rank, excel_files, no_content, keys, use_gpu, batch_start, language,
                  date_str, batch_size, source,
                  nested, cells, pc, driver, worker, ghosts, observed, exported>>

\* main reads the sheet and normalises the ranks; analyze_batch hands the
\* whole sheet, one batch, to analyze_batch_parallel
StartPool ==
  /\ rows # <<>>
  /\ tasks = <<>>
  /\ records' = Normalised(rows)
  /\ tasks' = [k \in DOMAIN rows |-> "queued"]
  /\ answer' = [k \in DOMAIN rows |-> Absent]
  /\ UNCHANGED <<rest_of_pool, store, rows, submitted>>

\* executor.submit(self.analyze_product, product), in the order of the batch;
\* max_workers = 5 threads, so a submitted call starts at once
Submit ==
  /\ tasks # <<>>
  /\ submitted < Len(tasks)
  /\ submitted' = submitted + 1
  /\ tasks' = [tasks EXCEPT ![submitted'] = "api"]
  /\ UNCHANGED <<rest_of_pool, records, store, rows, answer>>

\* the path the call for the k-th product writes
PathOf(k) == MarkdownName(records[k].rank, records[k].name)

\* a worker thread gets the answer of the API, or falls back to the template
PoolCall(k) ==
  /\ tasks[k] = "api"
  /\ \E outcome \in Outcomes : answer' = [answer EXCEPT ![k] = ContentFor(outcome)]
  /\ tasks' = [tasks EXCEPT ![k] = "open"]
  /\ UNCHANGED <<rest_of_pool, records, store, rows, submitted>>

\* a worker thread opens its file for writing
PoolOpen(k) ==
  /\ tasks[k] = "open"
  /\ store' = [store EXCEPT ![WriteDir][PathOf(k)] = Truncated]
  /\ tasks' = [tasks EXCEPT ![k] = "write"]
  /\ UNCHANGED <<rest_of_pool, records, rows, submitted, answer>>

\* a worker thread that writes a content buffer shared by the threads
PoolWrite_shared(k) ==
  /\ tasks[k] = "write"
  /\ \E l \in DOMAIN tasks :
       /\ answer[l] # Absent
       /\ store' = [store EXCEPT ![WriteDir][PathOf(k)] = answer[l]]
  /\ tasks' = [tasks EXCEPT ![k] = "done"]
  /\ UNCHANGED <<rest_of_pool, records, rows, submitted, answer>>

\* a worker thread writes the content and returns its result
PoolWrite(k) ==
  /\ tasks[k] = "write"
  /\ store' = [store EXCEPT ![WriteDir][PathOf(k)] = answer[k]]
  /\ tasks' = [tasks EXCEPT ![k] = "done"]
  /\ UNCHANGED <<rest_of_pool, records, rows, submitted, answer>>

WorkerCalls == \E k \in DOMAIN tasks : PoolCall(k)
WorkerOpens == \E k \in DOMAIN tasks : PoolOpen(k)
WorkerWrites == \E k \in DOMAIN tasks : PoolWrite(k)

NextPool ==
  \/ StartPool
  \/ Submit
  \/ WorkerCalls
  \/ WorkerOpens
  \/ WorkerWrites

SpecPool == InitPool /\ [][NextPool]_vars

RECURSIVE SequentialStore(_, _)
\* the store after [self.analyze_product(product) for product in batch] on
\* the first k products, with the same answers of the API
SequentialStore(st, k) ==
  IF k = 0 THEN st
  ELSE [SequentialStore(st, k - 1) EXCEPT ![WriteDir][PathOf(k)] = answer[k]]

\* analyze_product calls that were started and have not returned
InFlight == {k \in DOMAIN tasks : tasks[k] \in {"api", "open", "write"}}

\* ------------------------------------- ProductAnalyzer.analyze_batch
\* no reconcile run, export or other tool has touched the state
NoReconcile ==
  /\ nested = EmptyDir
  /\ cells = [p \in 1..MaxN |-> NoFile]
  /\ pc = "idle"
  /\ report = NoReport
  /\ all_missing = <<>>
  /\ i = 0
  /\ rank_range = <<0, 0>>
  /\ success = TRUE
  /\ new_report = NoReport
  /\ attempt = 0
  /\ products_to_analyze = <<>>
  /\ j = 0
  /\ markdown_content = Absent
  /\ calls = {}
  /\ failed = {}
  /\ gen_ok = TRUE
  /\ faults = 0
  /\ crashed = FALSE
  /\ started = {}
  /\ nonzero = {}
  /\ runs = 0
  /\ observed = NoReport
  /\ exported = FALSE
  /\ md_check = NoReport
  /\ ProductsIdle
  /\ RanksIdle
  /\ excel_files = {}
  /\ markdown_paths = <<>>
  /\ parsed_ranks = <<>>

\* the files of a sheet of MaxSheet tools named "A" with the ranks 1, 2, ...
BatchFiles == {MarkdownName(k, <<"A">>) : k \in 1..MaxSheet}

\* "product_analyzer.py -b batch_size [--use-gpu]" on such a sheet, in an
\* empty output directory
InitBatches ==
  /\ records = <<>>
  /\ language \in Langs
  /\ date_str = get_current_date_str
  /\ batch_size \in {2, MaxSheet}
  /\ source = "ok"
  /\ store = [d \in Dirs |-> [f \in BatchFiles |-> Absent]]
  /\ NoReconcile
  /\ \E n \in 1..MaxSheet :
       rows = [k \in 1..n |-> [rank |-> [kind |-> "int", value |-> k],
                                name |-> <<"A">>]]
  /\ submitted = 0
  /\ tasks = <<>>
  /\ answer = <<>>
  /\ use_gpu \in BOOLEAN
  /\ batch_start = 0

\* what analyze_batch leaves alone
rest_of_batches == <<md_check, by_id, by_rank, excel_files, no_content, keys, use_gpu, language, date_str,
                     batch_size, source, nested, cells, pc, driver, worker, ghosts,
                     observed, exported, rows>>

\* main reads the sheet and normalises the ranks; analyze_batch starts with
\* the batch at offset 0 (start_index 0, no count)
StartBatches ==
  /\ rows # <<>>
  /\ tasks = <<>>
  /\ records' = Normalised(rows)
  /\ tasks' = [k \in DOMAIN rows |-> "queued"]
  /\ answer' = [k \in DOMAIN rows |-> Absent]
  /\ batch_start' = 0
  /\ UNCHANGED <<rest_of_batches, store, submitted>>

\* the position after the last product of products_to_analyze[i:i+batch_size]
BatchEnd == Min({batch_start + batch_size, Len(tasks)})

\* executor.submit(self.analyze_product, product): the call waits in the
\* queue of the executor
SubmitToPool ==
  /\ use_gpu
  /\ tasks # <<>>
  /\ submitted < BatchEnd
  /\ submitted' = submitted + 1
  /\ tasks' = [tasks EXCEPT ![submitted'] = "pending"]
  /\ UNCHANGED <<rest_of_batches, records, store, answer, batch_start>>

\* an executor without a limit on its threads
WorkerStarts_unbounded ==
  /\ {k \in DOMAIN tasks : tasks[k] = "pending"} # {}
  /\ tasks' = [tasks EXCEPT ![Min({k \in DOMAIN tasks : tasks[k] = "pending"})] = "api"]
  /\ UNCHANGED <<rest_of_batches, records, store, answer, batch_start, submitted>>

\* ThreadPoolExecutor(max_workers=5): one of at most max_workers threads
\* takes the oldest waiting call
WorkerStarts ==
  /\ {k \in DOMAIN tasks : tasks[k] = "pending"} # {}
  /\ Cardinality({k \in DOMAIN tasks : tasks[k] = "api"}) < max_workers
  /\ tasks' = [tasks EXCEPT ![Min({k \in DOMAIN tasks : tasks[k] = "pending"})] = "api"]
  /\ UNCHANGED <<rest_of_batches, records, store, answer, batch_start, submitted>>

\* [self.analyze_product(product) for product in batch]: the next call
\* starts when the one before it has returned
SequentialCall ==
  /\ ~use_gpu
  /\ tasks # <<>>
  /\ submitted < BatchEnd
  /\ \A k \in DOMAIN tasks : tasks[k] # "api"
  /\ submitted' = submitted + 1
  /\ tasks' = [tasks EXCEPT ![submitted'] = "api"]
  /\ UNCHANGED <<rest_of_batches, records, store, answer, batch_start>>

\* an analyze_product call runs to its end: the answer of the API or the
\* template is written to the path of the product and the call returns
CallReturns ==
  \E k \in DOMAIN tasks :
    /\ tasks[k] = "api"
    /\ \E outcome \in Outcomes :
         /\ answer' = [answer EXCEPT ![k] = ContentFor(outcome)]
         /\ store' = [store EXCEPT ![WriteDir][PathOf(k)] = ContentFor(outcome)]
    /\ tasks' = [tasks EXCEPT ![k] = "done"]
    /\ UNCHANGED <<rest_of_batches, records, batch_start, submitted>>

\* the "with" block of the executor (or the list comprehension) is left when
\* every call of the batch has returned; the loop goes to the next batch
NextBatchOfSheet ==
  /\ tasks # <<>>
  /\ submitted = BatchEnd
  /\ \A k \in 1..BatchEnd : tasks[k] = "done"
  /\ BatchEnd < Len(tasks)
  /\ batch_start' = batch_start + batch_size
  /\ UNCHANGED <<rest_of_batches, records, store, answer, tasks, submitted>>

NextBatches ==
  \/ StartBatches
  \/ SubmitToPool
  \/ WorkerStarts
  \/ SequentialCall
  \/ CallReturns
  \/ NextBatchOfSheet

SpecBatches == InitBatches /\ [][NextBatches]_vars

\* ----------------------------------------- the run under fair scheduling
\* one language and date and an empty markdown directory; every subprocess
\* returns, with any return code, and the interpreter goes on to the next
\* statement
InitLive ==
  /\ Init
  /\ language = "cn"
  /\ date_str = get_current_date_str
  /\ store = [d \in Dirs |-> EmptyDir]

NextLive ==
  \/ StartReconcile
  \/ NextBatch
  \/ RunAnalysisFails
  \/ StartAnalyzer
  \/ AnalyzerFails
  \/ CallGenerator
  \/ OpenMarkdown
  \/ WriteMarkdown
  \/ SaveResults
  \/ FinalCheck

SpecLive == InitLive /\ [][NextLive]_vars /\ WF_vars(NextLive)

\* ------------------------------------------- the run without its sources
\* what check_analysis_completeness can find: everything, no analysis
\* directory, no data file, a data file pandas cannot read, no markdown
\* directory
Sources == {"ok", "no analysis_dir", "no data_file", "unreadable", "no markdown_dir"}

InitSource == InitReconcile /\ source \in Sources /\ excel_files = {}

NextSource ==
  \/ StartReconcile
  \/ NextBatch
  \/ StartAnalyzer
  \/ CallGenerator
  \/ OpenMarkdown
  \/ WriteMarkdown
  \/ SaveResults
  \/ FinalCheck

SpecSource == InitSource /\ [][NextSource]_vars

\* ----------------------------------- reconcile runs, checks and exports
\* one language and date; the analysis directory may hold sheets of earlier
\* exports
InitStore ==
  /\ InitReconcile
  /\ source = "ok"
  /\ language = "cn"
  /\ date_str = get_current_date_str
  /\ excel_files \in {{}, {"analyzed_backup", "analyzed_HHMMSS"}}

\* the completeness checks are those of the reconcile runs; one export in a
\* behaviour, before, between or after the runs
NextStore ==
  \/ StartReconcile
  \/ NextBatch
  \/ StartAnalyzer
  \/ CallGenerator
  \/ OpenMarkdown
  \/ WriteMarkdown
  \/ SaveResults
  \/ FinalCheck
  \/ ~exported /\ update_excel_with_analysis
  \/ ~exported /\ insert_md_to_excel
  \/ ~exported /\ run_analysis_insert_md_to_excel

SpecStore == InitStore /\ [][NextStore]_vars

\* ------------------------- "run_analysis.py --rank-range a-b" on its own
\* a data file whose rows carry distinct ranks in any order, with or without
\* gaps; an empty markdown directory; analyze_specific_ranks is entered with
\* the range of the command line
InitRange ==
  /\ \E n \in 1..MaxN : \E rank_of \in [1..n -> 1..MaxN] :
       /\ \A p, q \in 1..n : p # q => rank_of[p] # rank_of[q]
       /\ records = [p \in 1..n |-> [rank |-> rank_of[p], name |-> NameOf(rank_of[p])]]
  /\ language \in Langs
  /\ date_str = get_current_date_str
  /\ batch_size = 1
  /\ source = "ok"
  /\ store = [d \in Dirs |-> EmptyDir]
  /\ nested = EmptyDir
  /\ cells = [p \in 1..MaxN |-> NoFile]
  /\ pc = "attempt"
  /\ report = NoReport
  /\ all_missing = <<>>
  /\ i = 0
  /\ \E a \in 1..MaxN : \E b \in a..MaxN : rank_range = <<a, b>>
  /\ success = TRUE
  /\ new_report = NoReport
  /\ attempt = 0
  /\ products_to_analyze = <<>>
  /\ j = 0
  /\ markdown_content = Absent
  /\ calls = {}
  /\ failed = {}
  /\ gen_ok = TRUE
  /\ faults = 0
  /\ crashed = FALSE
  /\ started = {}
  /\ nonzero = {}
  /\ runs = 0
  /\ observed = NoReport
  /\ exported = FALSE
  /\ md_check = NoReport
  /\ ProductsIdle
  /\ RanksIdle
  /\ PoolIdle
  /\ excel_files = {}
  /\ markdown_paths = <<>>
  /\ parsed_ranks = <<>>

NextRange ==
  \/ StartAnalyzer
  \/ CallGenerator
  \/ OpenMarkdown
  \/ WriteMarkdown
  \/ SaveResults

SpecRange == InitRange /\ [][NextRange]_vars

\* ---------------------------- the by-id run and the by-rank run together
NextGenerate ==
  \/ StartProducts
  \/ NextProduct
  \/ RunProduct
  \/ EndProduct
  \/ ReturnProducts
  \/ StartRanks
  \/ AnalyzeRank
  \/ ReturnRanks

SpecGenerate == Init /\ [][NextGenerate]_vars

\* --------------------------------------- file names, character by character
\* str(rank) for a rank >= 0
DigitChars == <<"0", "1", "2", "3", "4", "5", "6", "7", "8", "9">>

RECURSIVE Digits(_)
Digits(n) ==
  IF n < 10 THEN <<DigitChars[n + 1]>>
  ELSE Digits(n \div 10) \o <<DigitChars[(n % 10) + 1]>>

\* int(match.group(1)) of a string of digits
RECURSIVE IntOf(_)
IntOf(digits) ==
  IF digits = <<>> THEN 0
  ELSE 10 * IntOf(SubSeq(digits, 1, Len(digits) - 1))
         + (CHOOSE d \in 0..9 : DigitChars[d + 1] = digits[Len(digits)])

\* f"{rank}-{safe_name}.md"
FileName(r, name) == Digits(r) \o <<"-">> \o SafeName(name) \o <<".", "m", "d">>

\* a pattern that takes one digit: r'^(\d)'
ParseRank_one_digit(file_name) ==
  IF file_name # <<>> /\ file_name[1] \in Range(DigitChars)
    THEN IntOf(<<file_name[1]>>)
    ELSE -1

\* re.match(r'^(\d+)-', file_name) and int(match.group(1)): the longest run
\* of digits at the start, not empty and followed by "-"; -1 for no match
ParseRank(file_name) ==
  LET n == Cardinality({k \in DOMAIN file_name :
                          \A l \in 1..k : file_name[l] \in Range(DigitChars)})
  IN  IF n >= 1 /\ n < Len(file_name) /\ file_name[n + 1] = "-"
        THEN IntOf(SubSeq(file_name, 1, n))
        ELSE -1

\* tool names of up to MaxNameLen characters: a capital, a small letter, a
\* digit and a hyphen
KeyNames == UNION {[1..n -> {"A", "b", "1", "-"}] : n \in 0..MaxNameLen}

\* one or two records with any rank of 1..MaxRank and any of the names
InitKeys ==
  /\ NoReconcile
  /\ PoolIdle
  /\ \E n \in 1..2 : records \in [1..n -> [rank : 1..MaxRank, name : KeyNames]]
  /\ language = "cn"
  /\ date_str = get_current_date_str
  /\ batch_size = 1
  /\ source = "ok"
  /\ store = [d \in Dirs |-> EmptyDir]

\* the analyzers build the file name of each record
BuildPaths ==
  /\ markdown_paths = <<>>
  /\ markdown_paths' = [p \in DOMAIN records |->
                          FileName(records[p].rank, records[p].name)]
  /\ UNCHANGED <<md_check, by_id, by_rank, pool, excel_files, no_content,
                 parsed_ranks, inputs, store, nested, cells, pc, driver, worker,
                 ghosts, observed, exported>>

\* the completeness check takes the rank from each file name
ParsePaths ==
  /\ markdown_paths # <<>>
  /\ parsed_ranks = <<>>
  /\ parsed_ranks' = [p \in DOMAIN markdown_paths |-> ParseRank(markdown_paths[p])]
  /\ UNCHANGED <<md_check, by_id, by_rank, pool, excel_files, no_content,
                 markdown_paths, inputs, store, nested, cells, pc, driver,
                 worker, ghosts, observed, exported>>

NextKeys ==
  \/ BuildPaths
  \/ ParsePaths

SpecKeys == InitKeys /\ [][NextKeys]_vars

\* ------------------------------------------ the run with failing subprocesses
\* Spec without the exporters and the concurrent check, with subprocesses
\* that may end with a non-zero return code, and with the by-id run
NextFail ==
  \/ StartProducts
  \/ NextProduct
  \/ RunProduct
  \/ EndProduct
  \/ ReturnProducts
  \/ StartReconcile
  \/ NextBatch
  \/ RunAnalysisFails
  \/ StartAnalyzer
  \/ AnalyzerFails
  \/ CallGenerator
  \/ OpenMarkdown
  \/ WriteMarkdown
  \/ SaveResults
  \/ FinalCheck

SpecFail == Init /\ [][NextFail]_vars

\* ------------------------------------------------- the exporters on their own
\* any content of the run's markdown directory, no reconcile run in progress
InitExport ==
  /\ \E n \in 1..MaxN : records = [p \in 1..n |-> [rank |-> p, name |-> NameOf(p)]]
  /\ language \in Langs
  /\ date_str = get_current_date_str
  /\ batch_size = 1
  /\ source = "ok"
  /\ \E files \in [OldFiles -> InitFiles \cup {Absent}] :
       /\ Cardinality({f \in OldFiles : files[f] # Absent}) <= MaxExportFiles
       /\ store = [d \in Dirs |-> IF d = <<date_str, language>>
                                    THEN Directory(files) ELSE EmptyDir]
  /\ nested = EmptyDir
  /\ cells = [p \in 1..MaxN |-> NoFile]
  /\ pc = "done"
  /\ report = NoReport
  /\ all_missing = <<>>
  /\ i = 0
  /\ rank_range = <<0, 0>>
  /\ success = TRUE
  /\ new_report = NoReport
  /\ attempt = 0
  /\ products_to_analyze = <<>>
  /\ j = 0
  /\ markdown_content = Absent
  /\ calls = {}
  /\ failed = {}
  /\ gen_ok = TRUE
  /\ faults = 0
  /\ crashed = FALSE
  /\ started = {}
  /\ nonzero = {}
  /\ runs = 0
  /\ observed = NoReport
  /\ exported = FALSE
  /\ md_check = NoReport
  /\ ProductsIdle
  /\ RanksIdle
  /\ PoolIdle
  /\ excel_files = {}
  /\ markdown_paths = <<>>
  /\ parsed_ranks = <<>>

NextExport ==
  \/ update_excel_with_analysis
  \/ insert_md_to_excel
  \/ run_analysis_insert_md_to_excel

SpecExport == InitExport /\ [][NextExport]_vars

\* ------------------------------------- the completeness checkers on their own
\* any record list, the empty one included, and any content of the directory
InitCheck ==
  /\ \E n \in 0..MaxN : records = [p \in 1..n |-> [rank |-> p, name |-> NameOf(p)]]
  /\ language = CheckMdDir[2]
  /\ date_str = CheckMdDir[1]
  /\ batch_size = 1
  /\ source = "ok"
  /\ \E files \in [OldFiles -> InitFiles \cup {GenValid, Absent}] :
       /\ Cardinality({f \in OldFiles : files[f] # Absent}) <= MaxExportFiles
       /\ store = [d \in Dirs |-> IF d = CheckMdDir
                                    THEN Directory(files) ELSE EmptyDir]
  /\ nested = EmptyDir
  /\ cells = [p \in 1..MaxN |-> NoFile]
  /\ pc = "idle"
  /\ report = NoReport
  /\ all_missing = <<>>
  /\ i = 0
  /\ rank_range = <<0, 0>>
  /\ success = TRUE
  /\ new_report = NoReport
  /\ attempt = 0
  /\ products_to_analyze = <<>>
  /\ j = 0
  /\ markdown_content = Absent
  /\ calls = {}
  /\ failed = {}
  /\ gen_ok = TRUE
  /\ faults = 0
  /\ crashed = FALSE
  /\ started = {}
  /\ nonzero = {}
  /\ runs = 0
  /\ observed = NoReport
  /\ exported = FALSE
  /\ md_check = NoReport
  /\ ProductsIdle
  /\ RanksIdle
  /\ PoolIdle
  /\ excel_files = {}
  /\ markdown_paths = <<>>
  /\ parsed_ranks = <<>>

\* product_stability.py --check-completeness
CheckCompleteness ==
  /\ pc = "idle"
  /\ report = NoReport
  /\ report' = check_analysis_completeness(store, language, date_str, Total)
  /\ UNCHANGED <<side, inputs, store, nested, cells, pc, all_missing, i,
                 rank_range, success, new_report, runs, worker, ghosts,
                 observed, exported>>

\* python check_md_files.py
check_md_files_main ==
  /\ md_check = NoReport
  /\ md_check' = check_md_files(store, Total)
  /\ UNCHANGED <<by_id, by_rank, pool, excel_files, no_content, keys, inputs, store,
                 nested, cells, pc, driver, worker, ghosts, observed, exported>>

NextCheck ==
  \/ CheckCompleteness
  \/ check_md_files_main

SpecCheck == InitCheck /\ [][NextCheck]_vars

\* ------------------------------------------------------------------ claims
\* C1: a reconcile pass calls the Generator only for the ranks of its
\* initial missing-or-corrupt target list; a rank whose artifact is valid is
\* not generated again, also when it lies inside the range of a batch.
C1_GeneratorOnlyForTargets == calls \subseteq Range(all_missing)

\* C2: the completeness report puts every rank of 1..N into exactly one of
\* analyzed, missing and corrupt (the ranks of the too-small files of
\* records): the three sets are pairwise disjoint and their union is 1..N.
C2_ReportPartitionsRanks ==
  report # NoReport =>
    LET analyzed == report.analyzed_ranks
        missing == Range(report.missing_ranks)
        corrupt == {RankOf(f) : f \in report.small_files_list}
                     \cap 1..report.total_products
    IN  /\ analyzed \cap missing = {}
        /\ analyzed \cap corrupt = {}
        /\ missing \cap corrupt = {}
        /\ analyzed \cup missing \cup corrupt = 1..report.total_products

\* C3: a file of MIN_VALID_FILE_SIZE - 1 bytes is listed as a small file by
\* the completeness check, and its rank is neither among the missing ranks
\* nor among the analyzed ranks (the report is the one just made of the
\* store: no batch of the run has started).
C3_SmallFileIsCorruptOnly ==
  (pc = "batches" /\ i = 0) =>
    \A f \in MarkdownFiles(store, TargetDir) :
      Size(store[TargetDir][f]) = MIN_VALID_FILE_SIZE - 1 =>
        /\ f \in report.small_files_list
        /\ RankOf(f) \notin Range(report.missing_ranks)
        /\ RankOf(f) \notin report.analyzed_ranks

\* C4: when the API call fails for exactly one rank of a batch and returns
\* the full analysis for the others, the batch leaves a valid artifact for
\* every other rank and no valid artifact for the failed rank.
C4_FailedRankLeavesNoValidArtifact ==
  LET batch_ranks == {records[q].rank : q \in Range(products_to_analyze)}
  IN  (pc = "save" /\ faults = Cardinality(failed \cap batch_ranks)
                   /\ Cardinality(failed \cap batch_ranks) = 1) =>
        \A q \in Range(products_to_analyze) :
          LET f == MarkdownName(records[q].rank, records[q].name)
              valid == Size(store[WriteDir][f]) >= MIN_VALID_FILE_SIZE
          IN  IF records[q].rank \in failed THEN ~valid ELSE valid

\* C5: a rank of the target list whose API call failed during the run is
\* not among the analyzed ranks of the completeness check that ends the
\* run, unless the run reported a failure.
C5_FailedRankNotReportedAnalyzed ==
  (pc = "done" /\ new_report # NoReport /\ success) =>
    \A r \in failed \cap Range(all_missing) : r \notin new_report.analyzed_ranks

\* C6: starting from an empty store, with an API that always returns the
\* full analysis, the first reconcile run ends with analyzed = 1..N and no
\* missing rank.
C6_FreshStoreCompletesInOneRun ==
  (pc = "done" /\ runs = 1 /\ gen_ok /\ ~exported
     /\ report.analyzed_ranks = {} /\ report.small_files_list = {}) =>
    /\ new_report # NoReport
    /\ new_report.analyzed_ranks = 1..Total
    /\ new_report.missing_ranks = <<>>

\* C7: with an API that always returns the full analysis and no export in
\* between, the second of two reconcile runs ends with no missing rank and
\* no too-small file of a record's rank left.
C7_SecondRunLeavesNothing ==
  (pc = "done" /\ runs = 2 /\ gen_ok /\ ~exported) =>
    LET last == IF new_report # NoReport THEN new_report ELSE report
    IN  /\ last.missing_ranks = <<>>
        /\ \A f \in last.small_files_list : RankOf(f) \notin 1..Total

\* C8: a reconcile run for date d and language l writes its artifacts into
\* the directory of (d, l), the one its completeness check scans, and into
\* no other directory.
C8_WritesOnlyIntoTargetDir ==
  \A d \in Dirs : d # TargetDir => MarkdownFiles(store, d) = {}

\* C9: a completeness check made while a run writes artifacts never sees a
\* partly written file: when the run started without too-small files and
\* every API call returned the full analysis, the check lists no too-small
\* file and still counts every rank that was analyzed when the run started.
C9_CheckNeverSeesPartialWrite ==
  (observed # NoReport /\ gen_ok) =>
    /\ report.small_files_list = {} => observed.small_files_list = {}
    /\ report.analyzed_ranks \subseteq observed.analyzed_ranks

\* C10: an export run leaves the content of every artifact as it was and
\* calls no Generator.
C10_ExportLeavesStoreUnchanged ==
  [][(update_excel_with_analysis \/ insert_md_to_excel) =>
       (store' = store /\ calls' = calls)]_vars

\* C11: in the exported sheet the analysis cell of a row holds an artifact of
\* that row's rank only, and no artifact is merged into more than one row.
C11_CellHoldsArtifactOfRowRank ==
  /\ \A p \in 1..Total :
       cells[p] # NoFile => RankOf(cells[p]) = records[p].rank
  /\ \A p, q \in 1..Total :
       (p # q /\ cells[p] # NoFile) => cells[p] # cells[q]

\* C12: an export fills the analysis cell of a row only from a valid
\* artifact (at least MIN_VALID_FILE_SIZE bytes when the export reads it);
\* a row whose artifact is absent or too small stays empty.
C12_CellFilledOnlyFromValidArtifact ==
  [][NextExport =>
       \A p \in 1..Total :
         cells'[p] # NoFile =>
           Size(store[TargetDir][cells'[p]]) >= MIN_VALID_FILE_SIZE]_vars

\* C13: for an empty record list every completeness checker ends without a
\* division by zero and reports total 0, no missing rank and a completion
\* percentage of 0.
C13_EmptyRecordsReportZero ==
  Total = 0 =>
    /\ report # NoReport =>
         /\ report.total_products = 0
         /\ report.missing_ranks = <<>>
         /\ report.completion_percentage = 0
    /\ md_check # NoReport =>
         /\ "error" \notin DOMAIN md_check
         /\ md_check.total_products = 0
         /\ md_check.missing_ranks = <<>>
         /\ md_check.completion_rate = 0

\* C14: a failed or timed-out Generator call makes its attempt a failed one,
\* which is followed by another attempt while attempts remain: when
\* analyze_specific_ranks stops attempting a rank range, either all
\* max_attempts attempts are used or no Generator call of the range failed.
C14_FailedCallIsRetried ==
  [][(pc = "save" /\ pc' = "batches") =>
       \/ attempt = max_attempts
       \/ failed \cap {records[q].rank : q \in Range(products_to_analyze)} = {}]_vars

C16_WriteFailureStaysInLoop ==
  (/\ ranks_pc \in {"returned", "raised"}
   /\ 0 < start_rank /\ start_rank < end_rank /\ end_rank <= Total) =>
    /\ ranks_pc = "returned"
    /\ reached = start_rank..end_rank

\* C17: a rank whose only artifacts of at least MIN_VALID_FILE_SIZE bytes
\* lack a required heading is not reported analyzed by the completeness check
\* of a reconcile run and is in the target list of that run.
C17_IncompleteArtifactIsReattempted ==
  [][(runs' = runs + 1) =>
       \A r \in 1..Total :
         LET big == {f \in MarkdownFiles(store, TargetDir) :
                       RankOf(f) = r /\ Size(store[TargetDir][f]) >= MIN_VALID_FILE_SIZE}
         IN  (big # {} /\ big \subseteq IncompleteFiles(store, TargetDir)) =>
               /\ r \notin report'.analyzed_ranks
               /\ r \in Range(all_missing')]_vars

\* C18: when analyze_ranks comes to the rank of a record, the completeness
\* check reports that rank analyzed exactly if the skip test finds a valid
\* artifact at the path {rank}-{slug(name)}.md of the record.
C18_CheckAgreesWithSkipTest ==
  (ranks_pc = "loop" /\ rank <= end_rank /\ rank <= Total) =>
    (rank \in check_analysis_completeness(store, language, date_str, Total).analyzed_ranks
       <=> AlreadyAnalyzed(store, rank))

\* C19: in the parallel mode no two analyze_product calls that are in flight
\* at the same time write the same path, whatever the sheet (here: whatever
\* the ranks of a sheet whose tool names are all different).
C19_InFlightCallsHaveDistinctPaths ==
  \A k, l \in InFlight :
    (k # l /\ rows[k].name # rows[l].name) => PathOf(k) # PathOf(l)

\* C20: when the worker pool has finished a batch whose products have
\* pairwise different paths, the store is the one the sequential mode leaves
\* for the same answers of the API, whatever the order of the threads' steps.
C20_PoolLeavesSequentialStore ==
  (/\ tasks # <<>>
   /\ \A k \in DOMAIN tasks : tasks[k] = "done"
   /\ \A k, l \in DOMAIN tasks : k # l => PathOf(k) # PathOf(l)) =>
    store = SequentialStore([d \in Dirs |-> EmptyDir], Len(tasks))

\* a finished batch of two products with different paths and different answers
C20_Witness ==
  /\ Len(tasks) >= 2
  /\ \A k \in DOMAIN tasks : tasks[k] = "done"
  /\ PathOf(1) # PathOf(2)
  /\ answer[1] # answer[2]
  /\ store[WriteDir][PathOf(1)] = answer[1]
  /\ store[WriteDir][PathOf(2)] = answer[2]

\* C21: at most max_workers analyze_product calls are in flight, a call of a
\* later batch starts only when every call of the batches before it has
\* returned, and without --use-gpu a call starts only when every call before
\* it in the list has returned.
C21_CallsAreBoundedAndBatched ==
  LET running == {k \in DOMAIN tasks : tasks[k] = "api"}
      begun == {k \in DOMAIN tasks : tasks[k] \in {"api", "done"}}
      batch_of(k) == (k - 1) \div batch_size
  IN  /\ Cardinality(running) <= max_workers
      /\ \A k \in begun : \A l \in DOMAIN tasks :
           batch_of(l) < batch_of(k) => tasks[l] = "done"
      /\ ~use_gpu => \A k \in begun : \A l \in 1..(k - 1) : tasks[l] = "done"

\* every thread of the executor is busy and another call of the batch waits
C21_Witness ==
  /\ use_gpu
  /\ Cardinality({k \in DOMAIN tasks : tasks[k] = "api"}) = max_workers
  /\ \E k \in DOMAIN tasks : tasks[k] = "pending"

\* C22: when the completeness check cannot reach one of its sources, the
\* reconcile run returns without a report: no batch is started, the API is
\* not called and no file of the store changes.
C22_NoSourceNoReconcile ==
  [][source # "ok" =>
       /\ store' = store
       /\ nested' = nested
       /\ report' = NoReport
       /\ calls' = {}
       /\ started' = {}
       /\ pc' \in {"idle", "done"}]_vars

\* a reconcile run that found no data file has returned
C22_Witness ==
  /\ source = "no data_file"
  /\ runs = 1
  /\ pc = "done"
  /\ report = NoReport

\* C23: a reconcile run that has started its batches comes to its end, no
\* retry loop makes more than max_attempts attempts, and once the run is over
\* nothing happens until product_stability.py is started again.
C23_ReconcileRunTerminates ==
  /\ [](pc \notin {"idle", "done"} => <>(pc = "done"))
  /\ [](attempt <= max_attempts)
  /\ [][pc = "done" => (pc' = "done" \/ runs' = runs + 1)]_vars

\* a run is over that had failing subprocesses and still reports gaps
C23_Witness ==
  /\ pc = "done"
  /\ crashed
  /\ new_report # NoReport
  /\ new_report.missing_products > 0

\* C24: no step of a reconcile run, a completeness check or an export,
\* clean_old_excel_files included, removes a markdown file: a file name
\* present in a markdown directory, or below {-o}/markdown_files, before the
\* step is present after it.
C24_NoArtifactIsDeleted ==
  [][/\ \A d \in Dirs : \A f \in FileNames :
          store[d][f] # Absent => store'[d][f] # Absent
     /\ \A f \in FileNames : nested[f] # Absent => nested'[f] # Absent]_vars

\* an export has removed the old sheets of the analysis directory, after a
\* reconcile run wrote over a file that was there, and the files are in place
C24_Witness ==
  /\ exported
  /\ excel_files = {"analyzed"}
  /\ runs = 1
  /\ \E f \in StrayFiles : store[TargetDir][f] # Absent
  /\ \E r \in calls : store[TargetDir][MarkdownName(r, NameOf(r))] # Absent

\* C25: a row of the sheet whose rank cell is empty or no integer, or holds
\* the integer of an earlier row, is skipped: no analyze_product call is
\* started for it, so no Generator call is made and no file is written for it.
C25_AnomalousRecordIsSkipped ==
  \A k \in DOMAIN tasks :
    LET anomalous ==
          \/ rows[k].rank.kind # "int"
          \/ \E l \in 1..(k - 1) :
                rows[l].rank.kind = "int" /\ rows[l].rank.value = rows[k].rank.value
    IN  anomalous => tasks[k] = "queued" /\ answer[k] = Absent

\* C26: for the rank range a-b, the products that product_analyzer slices by
\* position (start index a - 1, count b - a + 1) are the records whose rank
\* lies in a..b, and the API is called for the ranks of a..b that some record
\* has and for no other rank.
C26_SliceIsTheRankRange ==
  LET in_range == {r \in rank_range[1]..rank_range[2] :
                     \E p \in 1..Total : records[p].rank = r}
  IN  /\ attempt > 0 =>
           {records[p].rank : p \in Range(products_to_analyze)} = in_range
      /\ calls \subseteq in_range
      /\ pc = "batches" => calls = in_range

\* C27: a rank that the completeness check at the start of a reconcile run
\* reports as analyzed (the report the previous run ended with, when nothing
\* else wrote in between) is reported as analyzed by the check at the end of
\* the run: the run turns no valid file into a missing or a small one.
C27_AnalyzedStaysAnalyzed ==
  (pc = "done" /\ report # NoReport /\ new_report # NoReport)
    => report.analyzed_ranks \subseteq new_report.analyzed_ranks

\* C28: when the API returns no content for a rank, in analyze_ranks or in
\* "analyze_product.py --rank r", that step leaves every file of every
\* markdown directory as it was (nothing is created, truncated or written
\* over, at the key of the rank or at any other) and does not count the rank
\* as a success.
C28_NoContentChangesNothing ==
  [][(no_content' /\ (rank' = rank + 1 \/ product_attempt' = product_attempt + 1))
       => /\ store' = store
          /\ success_count' = success_count
          /\ ~product_success']_vars

\* analyze_ranks got no content for a rank that had a small file and has gone
\* on to the next rank
C28_Witness ==
  /\ no_content
  /\ ranks_pc = "loop"
  /\ rank - 1 \in reached
  /\ success_count = 0
  /\ \E f \in RecordFiles : RankOf(f) = rank - 1 /\ store[TargetDir][f] \in InitFiles

\* C29: in a completeness report the analyzed and the missing products add
\* up to the total, and the completion percentage (in hundredths of a
\* percent) lies between 0 and 100, whatever files the directory holds
\* (stated for the reports of a data file that has records).
C29_ReportCountsAddUp ==
  (report # NoReport /\ report.total_products >= 1) =>
    /\ report.analyzed_products + report.missing_products = report.total_products
    /\ 0 <= report.completion_percentage
    /\ report.completion_percentage <= 100 * 100

\* C30: the rank that the completeness check reads from the file name of a
\* record is the rank of the record, so the file names of two records with
\* different ranks differ; the safe name has the length of the name, holds
\* only small letters, digits and "_", and is its own safe name.
C30_KeyRoundTrip ==
  /\ parsed_ranks # <<>> =>
        \A p \in DOMAIN records : parsed_ranks[p] = records[p].rank
  /\ markdown_paths # <<>> =>
        /\ \A p, q \in DOMAIN records :
              records[p].rank # records[q].rank => markdown_paths[p] # markdown_paths[q]
        /\ \A p \in DOMAIN records :
              LET name == records[p].name
                  n == Len(Digits(records[p].rank))
                  safe_name == SubSeq(markdown_paths[p], n + 2, Len(markdown_paths[p]) - 3)
              IN  /\ Len(safe_name) = Len(name)
                  /\ \A k \in DOMAIN name :
                        safe_name[k] = CASE name[k] = "A" -> "a"
                                         [] name[k] = "-" -> "_"
                                         [] OTHER -> name[k]
                  /\ SafeName(safe_name) = safe_name

\* the names of rank 1, tool "1", and of the last rank, tool "-", have been
\* built ("1-1.md", "12-_.md") and read back
C30_Witness ==
  /\ Len(records) = 2
  /\ records[1] = [rank |-> 1, name |-> <<"1">>]
  /\ records[2] = [rank |-> MaxRank, name |-> <<"-">>]
  /\ parsed_ranks = <<1, MaxRank>>
  /\ markdown_paths[2][Len(markdown_paths[2]) - 3] = "_"

====
